---- MODULE Spec2Model ----
(***************************************************************************)
(* TitanQuest2Fix: the signature scanner, the byte patcher and the patch   *)
(* orchestration of src/src/utils.cpp (Utils::patternScan, Utils::patch,   *)
(* Utils::injectPatch) and their caller in src/src/dllmain.cpp.            *)
(*                                                                         *)
(* A C string is a sequence of one-character strings, a byte is a number   *)
(* in 0..255, an address is a number; the module image is the sequence of  *)
(* its bytes, the byte at address base + k being mem[k + 1].               *)
(***************************************************************************)
EXTENDS Integers, Sequences, FiniteSets, TLC

VARIABLES
    base,         \* module.address: where the image is loaded
    mem,          \* the bytes of the image, SizeOfImage of them
    prot,         \* the page protection of the range patch() works on
    signature,    \* sp.signature / the signature argument of patternScan
    patchStr,     \* sp.patch / the pattern argument of patch
    patchOffset,  \* sp.patchOffset
    enable,       \* the enable argument of injectPatch
    pc,           \* the statement the thread is at
    caller,       \* who called patch(): "injectPatch" or "direct"
    scan,         \* what the call of patternScan came to (NoScan before it)
    address,      \* the address argument of patch
    patternBytes, \* patch's local: the parsed bytes
    oldProtect,   \* patch's local DWORD, Uninit until VirtualProtect sets it
    log,          \* the lines LOG has emitted, oldest first
    hist,         \* history of the run, read by the properties only
    pattern,      \* patternScan's local: the parsed signature (NoPattern before)
    copied,       \* how many bytes the memcpy of patch() has stored so far
    seen,         \* what a thread of the host last read at the patched range
    ctx,          \* the SafetyHookContext a hook callback is handed
    yml,          \* the configuration readYml() fills
    dll           \* DllMain's notifications and the worker thread Main

vars == <<base, mem, prot, signature, patchStr, patchOffset, enable, pc, caller,
          scan, address, patternBytes, oldProtect, log, hist,
          pattern, copied, seen, ctx, yml, dll>>

\* the state of patternScan, patch and injectPatch
coreVars == <<base, mem, prot, signature, patchStr, patchOffset, enable, pc,
              caller, scan, address, patternBytes, oldProtect, log, hist,
              pattern>>

(***************************************************************************)
(* Bounds of the model.                                                    *)
(***************************************************************************)
MaxImage == 3     \* longest image, in bytes
MaxSig == 3       \* most tokens in a signature
MaxOverrun == 1   \* mapped bytes a scan can run into behind the image
MaxCalls == 2     \* calls of patch() in a row (PatchSpec)
MaxPatchOffset == 2
MaxPatch == 2     \* most bytes in a patch byte-string
SizeBits == 16    \* width of the model's size_t (64 in the build); every
                  \* size and index of the model is far below 2^SizeBits

SizeMod == 2 ^ SizeBits

ImageBytes == {17, 170}
Bases == {4096}

(***************************************************************************)
(* Characters and strings.                                                 *)
(***************************************************************************)
HexChars == <<"0", "1", "2", "3", "4", "5", "6", "7",
              "8", "9", "A", "B", "C", "D", "E", "F">>

IsHex(c) == \E k \in 1..16 : HexChars[k] = c

HexVal(c) == (CHOOSE k \in 1..16 : HexChars[k] = c) - 1

RECURSIVE Join(_, _)
\* the tokens of toks, in order, with sep between neighbours
Join(toks, sep) ==
    IF toks = <<>> THEN <<>>
    ELSE IF Len(toks) = 1 THEN toks[1]
    ELSE toks[1] \o sep \o Join(Tail(toks), sep)

SeqsUpTo(S, n) == UNION {[1..k -> S] : k \in 0..n}

(***************************************************************************)
(* Utils::patternScan, the signature parser (utils.cpp 103-127).           *)
(***************************************************************************)
RECURSIVE DigitsEnd(_, _)
\* strtoul's endptr: the first position at or after cur that holds no hex
\* digit (positions count from 0; the terminating NUL is at Len(s))
DigitsEnd(s, cur) ==
    IF cur < Len(s) /\ IsHex(s[cur + 1]) THEN DigitsEnd(s, cur + 1) ELSE cur

RECURSIVE HexValue(_, _, _, _)
\* the value of the hex digits s[from..to-1], acc being the value so far
HexValue(s, from, to, acc) ==
    IF from >= to THEN acc
    ELSE HexValue(s, from + 1, to, acc * 16 + HexVal(s[from + 1]))

\* strtoul(current, &current, 16) on the characters of the model: the value
\* of the longest run of hex digits at cur (0 when there is none, endptr
\* then being cur itself) and the position behind it
strtoul(s, cur) ==
    LET e == DigitsEnd(s, cur)
    IN  [value |-> HexValue(s, cur, e, 0), endptr |-> e]

RECURSIVE ParseFromOneMark(_, _, _)
\* a parser that steps over one character of a wildcard, not over both
ParseFromOneMark(s, current, pat) ==
    IF ~(current < Len(s)) THEN pat
    ELSE IF s[current + 1] = " " THEN ParseFromOneMark(s, current + 1, pat)
    ELSE IF s[current + 1] = "?"
         THEN ParseFromOneMark(s, current + 1,
                               [bytes |-> Append(pat.bytes, 255),
                                check |-> Append(pat.check, 0)])
    ELSE LET r == strtoul(s, current)
         IN  ParseFromOneMark(s, r.endptr + 1,
                              [bytes |-> Append(pat.bytes, r.value % 256),
                               check |-> Append(pat.check, 1)])

RECURSIVE ParseFrom(_, _, _)
ParseFrom(s, current, pat) ==
    IF ~(current < Len(s)) THEN pat
    ELSE IF s[current + 1] = " " THEN ParseFrom(s, current + 1, pat)
    ELSE IF s[current + 1] = "?"
         THEN ParseFrom(s, current + 2 + 1,
                        [bytes |-> Append(pat.bytes, 255),
                         check |-> Append(pat.check, 0)])
    ELSE LET r == strtoul(s, current)
         IN  ParseFrom(s, r.endptr + 1,
                       [bytes |-> Append(pat.bytes, r.value % 256),
                        check |-> Append(pat.check, 1)])

pattern_to_byte(s) == ParseFrom(s, 0, [bytes |-> <<>>, check |-> <<>>])

(***************************************************************************)
(* Utils::patternScan, the search (utils.cpp 129-153).                     *)
(***************************************************************************)
\* ntHeaders->OptionalHeader.SizeOfImage: the image's size in bytes
SizeOfImage(img) == Len(img)

\* the bound of the outer loop, sizeOfImage - size, computed in size_t:
\* it wraps around when the pattern has more tokens than the image has bytes
ScanLimit(img, pat) == (SizeOfImage(img) - Len(pat.bytes)) % SizeMod

RECURSIVE Compare(_, _, _, _)
\* the inner loop at candidate i from token j (both from 0): "found" when
\* no checked token differs, "miss" at the first checked token that does,
\* "oob" when a checked token has to be compared with scanBytes[i + j]
\* behind the image (a wildcard token reads no byte)
Compare(img, pat, i, j) ==
    IF ~(j < Len(pat.bytes)) THEN "found"
    ELSE IF pat.check[j + 1] = 1
         THEN IF i + j >= SizeOfImage(img) THEN "oob"
              ELSE IF img[i + j + 1] # pat.bytes[j + 1] THEN "miss"
              ELSE Compare(img, pat, i, j + 1)
    ELSE Compare(img, pat, i, j + 1)

ScanResult(kind, value, oob, iters) ==
    [kind |-> kind, value |-> value, oob |-> oob, iters |-> iters]

RECURSIVE ScanLoop(_, _, _, _, _)
\* the outer loop from candidate i: the set of outcomes the call can have.
\* One outcome while every read is inside the image. A read behind the
\* image is undefined: it faults, or it yields a byte that equals the token
\* or one that does not; behind MaxOverrun bytes nothing is mapped.
ScanLoop(b, img, pat, i, oob) ==
    IF ~(i < ScanLimit(img, pat)) THEN {ScanResult("ret", 0, oob, i)}
    ELSE LET c == Compare(img, pat, i, 0)
         IN  IF c = "found" THEN {ScanResult("ret", b + i, oob, i + 1)}
             ELSE IF c = "miss" THEN ScanLoop(b, img, pat, i + 1, oob)
             ELSE {ScanResult("fault", 0, TRUE, i + 1),
                   ScanResult("ret", b + i, TRUE, i + 1)}
                  \cup (IF i < SizeOfImage(img) + MaxOverrun
                        THEN ScanLoop(b, img, pat, i + 1, TRUE)
                        ELSE {})

\* a null module handle
NullModule == 0

\* Utils::patternScan(module, signature): its possible outcomes. With a null
\* module the read of dosHeader->e_lfanew (line 130) is a read of the
\* unmapped page at address 0, which faults.
patternScan(b, img, sig) ==
    IF b = NullModule THEN {ScanResult("fault", 0, FALSE, 0)}
    ELSE ScanLoop(b, img, pattern_to_byte(sig), 0, FALSE)

NoScan == [kind |-> "none"]

(***************************************************************************)
(* Utils::patch, the byte-string parser (utils.cpp 83-92).                 *)
(***************************************************************************)
RECURSIVE Fields(_, _, _)
\* stream >> byteStr, repeated: the maximal runs of non-space characters of
\* s from position cur on, cur counting from 0 and tok being the run so far
Fields(s, cur, tok) ==
    IF ~(cur < Len(s)) THEN (IF tok = <<>> THEN <<>> ELSE <<tok>>)
    ELSE IF s[cur + 1] = " "
         THEN (IF tok = <<>> THEN <<>> ELSE <<tok>>) \o Fields(s, cur + 1, <<>>)
    ELSE Fields(s, cur + 1, Append(tok, s[cur + 1]))

\* std::stoul(byteStr, nullptr, 16): the value of the leading hex digits,
\* whatever follows them; it throws std::invalid_argument when the field
\* starts with none
stoul(tok) ==
    LET e == DigitsEnd(tok, 0)
    IN  [throws |-> e = 0, value |-> HexValue(tok, 0, e, 0)]

\* the lambda patternToByte: the fields converted in order, each cut to a
\* u8; throws when std::stoul throws on one of them
patternToByte(s) ==
    LET f == Fields(s, 0, <<>>)
    IN  [throws |-> \E k \in 1..Len(f) : stoul(f[k]).throws,
         bytes |-> [k \in 1..Len(f) |-> stoul(f[k]).value % 256]]

(***************************************************************************)
(* Memory and page protection.                                             *)
(***************************************************************************)
PAGE_EXECUTE_READWRITE == "PAGE_EXECUTE_READWRITE"

\* the protections a range of the image may have when patch() is called
Protections == {"PAGE_EXECUTE_READ", "PAGE_EXECUTE", PAGE_EXECUTE_READWRITE}

Writable(p) == p = PAGE_EXECUTE_READWRITE

\* a DWORD no statement has assigned yet
Uninit == "uninitialized"

\* the addresses [a, a + n)
Range(a, n) == {x \in a..(a + n - 1) : TRUE}

\* a memcpy that copies one byte too few
StoreShort(b, m, a, bytes) ==
    [k \in 1..Len(m) |->
        IF (b + k - 1) \in Range(a, Len(bytes) - 1)
        THEN bytes[(b + k - 1) - a + 1] ELSE m[k]]

\* memcpy(a, bytes, Len(bytes)) as the image sees it: the bytes of the image
\* inside [a, a + Len(bytes)) are replaced, the others stay
Store(b, m, a, bytes) ==
    [k \in 1..Len(m) |->
        IF (b + k - 1) \in Range(a, Len(bytes))
        THEN bytes[(b + k - 1) - a + 1] ELSE m[k]]

\* the bytes of the image at [a, a + n), which lies inside the image
Load(b, m, a, n) == [k \in 1..n |-> m[(a - b) + k]]

InImage(b, m, a, n) == a >= b /\ a + n <= b + Len(m)

(***************************************************************************)
(* The inputs the specifications draw from.                                *)
(***************************************************************************)
Images == SeqsUpTo(ImageBytes, MaxImage) \ {<<>>}

SigTokens == {<<"A", "A">>, <<"1", "1">>, <<"?", "?">>}

\* one space, or the four spaces dllmain.cpp puts between groups
Separators == {<<" ">>, <<" ", " ", " ", " ">>}

Signatures == {Join(t, sep) : t \in SeqsUpTo(SigTokens, MaxSig), sep \in Separators}

PatchTokens == {<<"0", "1">>, <<"1", "A">>}

\* byte-strings of up to MaxPatch hex pairs, the empty string among them
PatchStrings ==
    {Join(t, sep) : t \in SeqsUpTo(PatchTokens, MaxPatch), sep \in Separators}

\* the scenario of the specification's section 8: "AA BB ?? DD" against the
\* bytes AA BB 11 DD and AA BB 11 EE
ScenarioSignature ==
    Join(<<<<"A", "A">>, <<"B", "B">>, <<"?", "?">>, <<"D", "D">>>>, <<" ">>)

ScenarioImages == {<<170, 187, 17, 221>>, <<170, 187, 17, 238>>}

\* the descriptor of pillarBoxFix (dllmain.cpp 290-294) and an excerpt of the
\* code it is made for: the cmp byte ptr [...],00 of dllmain.cpp 211 and 231
\* (80 3D F8 68 ED 05 00), the je (74 78) and the movss of dllmain.cpp 238
\* (F3 0F 10 44 24 60), with one byte before and one behind
PillarBoxSignature ==
    Join(<<Join(<<<<"8", "0">>, <<"3", "D">>, <<"?", "?">>, <<"?", "?">>,
                  <<"?", "?">>, <<"?", "?">>, <<"0", "0">>>>, <<" ">>),
           Join(<<<<"7", "4">>, <<"7", "8">>>>, <<" ">>),
           Join(<<<<"F", "3">>, <<"0", "F">>, <<"1", "0">>, <<"4", "4">>,
                  <<"2", "4">>, <<"6", "0">>>>, <<" ">>)>>,
         <<" ", " ", " ", " ">>)

PillarBoxPatch == <<"0", "1">>

PillarBoxOffset == 6

PillarBoxImage ==
    <<17, 128, 61, 248, 104, 237, 5, 0, 116, 120, 243, 15, 16, 68, 36, 96, 17>>

\* the values of the variables a specification does not use
\* Pattern pat = {} (utils.cpp 110)
NoPattern == [bytes |-> <<>>, check |-> <<>>]

NoCtx == [rip |-> 0]

NoYml == [fov |-> 0]

NoDll == [notes |-> <<>>]

Unused == /\ copied = 0 /\ seen = <<>>
          /\ ctx = NoCtx /\ yml = NoYml /\ dll = NoDll

NoHist(m, p) ==
    [mem0 |-> m, prot0 |-> p, scans |-> 0, steps |-> <<>>, written |-> {},
     calls |-> 0, after |-> <<>>]

(***************************************************************************)
(* Utils::patternScan called on its own (ScanSpec).                        *)
(***************************************************************************)
ScanInit ==
    /\ base \in Bases
    /\ \/ mem \in Images /\ signature \in Signatures
       \/ mem \in ScenarioImages /\ signature = ScenarioSignature
    /\ prot = "PAGE_EXECUTE_READ"
    /\ patchStr = <<>> /\ patchOffset = 0 /\ enable = TRUE
    /\ pc = "patternScan" /\ caller = "direct"
    /\ scan = NoScan /\ address = 0 /\ patternBytes = <<>>
    /\ oldProtect = Uninit /\ log = <<>>
    /\ hist = NoHist(mem, prot)
    /\ pattern = NoPattern
    /\ Unused

ScanCall ==
    /\ pc = "patternScan"
    /\ \E r \in patternScan(base, mem, signature) :
          /\ scan' = r
          /\ pc' = IF r.kind = "fault" THEN "crashed" ELSE "scanned"
    /\ pattern' = pattern_to_byte(signature)
    /\ hist' = [hist EXCEPT !.scans = @ + 1]
    /\ UNCHANGED <<copied, seen, ctx, yml, dll, base, mem, prot, signature, patchStr, patchOffset, enable,
                   caller, address, patternBytes, oldProtect, log>>

ScanNext == ScanCall

ScanSpec == ScanInit /\ [][ScanNext]_vars

(***************************************************************************)
(* Utils::patch (utils.cpp 81-99), statement by statement.                 *)
(***************************************************************************)
\* line 95: auto patternBytes = patternToByte(pattern); an exception of
\* std::stoul leaves patch and every caller, none of which catches it
PatchParse ==
    /\ pc = "parse"
    /\ LET b == patternToByte(patchStr)
       IN  IF b.throws
           THEN pc' = "crashed" /\ UNCHANGED patternBytes
           ELSE pc' = "protect" /\ patternBytes' = b.bytes
    /\ UNCHANGED <<pattern, copied, seen, ctx, yml, dll, base, mem, prot, signature, patchStr, patchOffset, enable,
                   caller, scan, address, oldProtect, log, hist>>

\* whether VirtualProtect can succeed on n bytes: a range of no bytes is
\* rejected, any other range is changed or not as the system decides
ProtectOutcomes(n) == IF n = 0 THEN {FALSE} ELSE BOOLEAN

Step(op, ok, arg, was, now) ==
    [op |-> op, ok |-> ok, arg |-> arg, was |-> was, now |-> now]

\* line 96: VirtualProtect(address, size, PAGE_EXECUTE_READWRITE, &oldProtect);
\* the call succeeds or fails, and its result is not looked at
PatchProtect ==
    /\ pc = "protect"
    /\ \E ok \in ProtectOutcomes(Len(patternBytes)) :
          /\ prot' = IF ok THEN PAGE_EXECUTE_READWRITE ELSE prot
          /\ oldProtect' = IF ok THEN prot ELSE oldProtect
          /\ hist' = [hist EXCEPT !.steps =
                 Append(@, Step("protect", ok, PAGE_EXECUTE_READWRITE, prot, prot'))]
    /\ pc' = "copy"
    /\ UNCHANGED <<pattern, copied, seen, ctx, yml, dll, base, mem, signature, patchStr, patchOffset, enable,
                   caller, scan, address, patternBytes, log>>

\* line 97: memcpy(address, patternBytes.data(), size); writing a page that
\* is not writable is an access violation, which ends the process
PatchCopy ==
    /\ pc = "copy"
    /\ IF Writable(prot) \/ Len(patternBytes) = 0
       THEN /\ mem' = Store(base, mem, address, patternBytes)
            /\ pc' = "restore"
            /\ hist' = [hist EXCEPT
                   !.steps = Append(@, Step("copy", TRUE, address, prot, prot)),
                   !.written = @ \cup Range(address, Len(patternBytes))]
       ELSE /\ pc' = "crashed"
            /\ hist' = [hist EXCEPT
                   !.steps = Append(@, Step("copy", FALSE, address, prot, prot))]
            /\ UNCHANGED mem
    /\ UNCHANGED <<pattern, copied, seen, ctx, yml, dll, base, prot, signature, patchStr, patchOffset, enable,
                   caller, scan, address, patternBytes, oldProtect, log>>

\* a restore that sets the protection code pages usually have instead of the
\* one that was captured
RestoreAssumedDefault(old, n) ==
    IF n = 0 THEN {"rejected"} ELSE {"PAGE_EXECUTE_READ"}

\* what VirtualProtect makes of the protection it is asked to set on n
\* bytes: the value the first call stored, or, oldProtect never having been
\* assigned, any protection or a value the call rejects
RestoreValues(old, n) ==
    IF n = 0 THEN {"rejected"}
    ELSE IF old = Uninit THEN Protections \cup {"rejected"}
    ELSE {old}

\* line 98: VirtualProtect(address, size, oldProtect, &oldProtect)
PatchRestore ==
    /\ pc = "restore"
    /\ \E v \in RestoreValues(oldProtect, Len(patternBytes)) :
          /\ prot' = IF v = "rejected" THEN prot ELSE v
          /\ oldProtect' = IF v = "rejected" THEN oldProtect ELSE prot
          /\ hist' = [hist EXCEPT
                 !.steps = Append(@, Step("restore", v # "rejected", oldProtect,
                                          prot, prot')),
                 !.after = Append(@, mem)]
    /\ pc' = IF caller = "injectPatch" THEN "logPatched" ELSE "returned"
    /\ UNCHANGED <<pattern, copied, seen, ctx, yml, dll, base, mem, signature, patchStr, patchOffset, enable,
                   caller, scan, address, patternBytes, log>>

(***************************************************************************)
(* Utils::patch called on its own, up to MaxCalls times with the same      *)
(* arguments (PatchSpec).                                                  *)
(***************************************************************************)
PatchInit ==
    /\ base \in Bases
    /\ mem \in Images
    /\ patchStr \in PatchStrings
    /\ address \in {a \in Range(base, Len(mem)) :
                       InImage(base, mem, a, Len(patternToByte(patchStr).bytes))}
    /\ prot \in Protections
    /\ signature = <<>> /\ patchOffset = 0 /\ enable = TRUE
    /\ pc = "idle" /\ caller = "direct"
    /\ scan = NoScan /\ patternBytes = <<>>
    /\ oldProtect = Uninit /\ log = <<>>
    /\ hist = NoHist(mem, prot)
    /\ pattern = NoPattern
    /\ Unused

\* patch(address, pattern) is entered: its locals are fresh
PatchCall ==
    /\ pc \in {"idle", "returned"}
    /\ hist.calls < MaxCalls
    /\ pc' = "parse"
    /\ patternBytes' = <<>>
    /\ oldProtect' = Uninit
    /\ hist' = [hist EXCEPT !.calls = @ + 1]
    /\ UNCHANGED <<pattern, copied, seen, ctx, yml, dll, base, mem, prot, signature, patchStr, patchOffset, enable,
                   caller, scan, address, log>>

PatchNext ==
    \/ PatchCall
    \/ PatchParse
    \/ PatchProtect
    \/ PatchCopy
    \/ PatchRestore

PatchSpec == PatchInit /\ [][PatchNext]_vars

(***************************************************************************)
(* Utils::injectPatch (utils.cpp 156-175), called once as pillarBoxFix     *)
(* calls it (dllmain.cpp 289-298).                                         *)
(***************************************************************************)
Init ==
    /\ base \in Bases
    /\ \/ /\ mem \in Images
          /\ signature \in {Join(t, <<" ">>) : t \in SeqsUpTo(SigTokens, MaxSig - 1)}
          /\ patchStr \in {<<"0", "1">>, <<"0", "1", " ", "1", "A">>}
          /\ patchOffset \in 0..MaxPatchOffset
       \/ /\ mem = PillarBoxImage
          /\ signature = PillarBoxSignature
          /\ patchStr = PillarBoxPatch
          /\ patchOffset = PillarBoxOffset
    /\ enable \in BOOLEAN
    /\ prot \in Protections
    /\ pc = "injectPatch" /\ caller = "injectPatch"
    /\ scan = NoScan /\ address = 0 /\ patternBytes = <<>>
    /\ oldProtect = Uninit /\ log = <<>>
    /\ hist = NoHist(mem, prot)
    /\ pattern = NoPattern
    /\ Unused

\* an entry that does not look at enable
InjectEnterAlways ==
    /\ pc = "injectPatch"
    /\ log' = Append(log, <<"Fix", IF enable THEN "Enabled" ELSE "Disabled">>)
    /\ pc' = "scan"
    /\ UNCHANGED <<pattern, copied, seen, ctx, yml, dll, base, mem, prot, signature, patchStr, patchOffset, enable,
                   caller, scan, address, patternBytes, oldProtect, hist>>

\* lines 158-159: LOG("Fix {}", enable ? "Enabled" : "Disabled"); if (enable)
InjectEnter ==
    /\ pc = "injectPatch"
    /\ log' = Append(log, <<"Fix", IF enable THEN "Enabled" ELSE "Disabled">>)
    /\ pc' = IF enable THEN "scan" ELSE "done"
    /\ UNCHANGED <<pattern, copied, seen, ctx, yml, dll, base, mem, prot, signature, patchStr, patchOffset, enable,
                   caller, scan, address, patternBytes, oldProtect, hist>>

\* a target that leaves the offset out
patchAbsAddrNoOffset(addr, off) == addr

\* the absolute address patch() is called with (line 166)
patchAbsAddr(addr, off) == addr + off

\* a test that takes every result of the scan for a match
FoundAlways(addr) == TRUE

\* line 161: if (addr != 0)
Found(addr) == addr # 0

\* the offset the "Patched" line reports (lines 164 and 167)
patchRelAddr(addr, b, off) == (addr - b) + off

\* lines 160-168 and 171-173: the scan, then "Found" and the call of patch,
\* or "Did not find"
InjectScan ==
    /\ pc = "scan"
    /\ \E r \in patternScan(base, mem, signature) :
          /\ scan' = r
          /\ IF r.kind = "fault"
             THEN pc' = "crashed" /\ UNCHANGED <<log, address>>
             ELSE IF Found(r.value)
             THEN /\ log' = Append(log, <<"Found", signature, r.value - base>>)
                  /\ address' = patchAbsAddr(r.value, patchOffset)
                  /\ pc' = "parse"
             ELSE /\ log' = Append(log, <<"Did not find", signature>>)
                  /\ pc' = "done"
                  /\ UNCHANGED address
    /\ pattern' = pattern_to_byte(signature)
    /\ hist' = [hist EXCEPT !.scans = @ + 1, !.calls = @ + (IF pc' = "parse" THEN 1 ELSE 0)]
    /\ UNCHANGED <<copied, seen, ctx, yml, dll, base, mem, prot, signature, patchStr, patchOffset, enable,
                   caller, patternBytes, oldProtect>>

\* line 169: LOG("Patched '{}' @ {:s}+{:x}", sp.patch, module.name, patchRelAddr)
InjectLogPatched ==
    /\ pc = "logPatched"
    /\ log' = Append(log, <<"Patched", patchStr,
                            patchRelAddr(scan.value, base, patchOffset)>>)
    /\ pc' = "done"
    /\ UNCHANGED <<pattern, copied, seen, ctx, yml, dll, base, mem, prot, signature, patchStr, patchOffset, enable,
                   caller, scan, address, patternBytes, oldProtect, hist>>

Next ==
    \/ InjectEnter
    \/ InjectScan
    \/ PatchParse
    \/ PatchProtect
    \/ PatchCopy
    \/ PatchRestore
    \/ InjectLogPatched

Spec == Init /\ [][Next]_vars

(***************************************************************************)
(* Properties of patternScan (ScanSpec).                                   *)
(***************************************************************************)
Pat == pattern_to_byte(signature)

Scanned == pc \in {"scanned", "crashed"}

\* every non-wildcard token of pattern p equals the byte of img at the
\* corresponding offset from start offset k
TokensEqualAt(img, p, k) ==
    \A j \in 1..Len(p.bytes) :
        p.check[j] = 1 => (k + j <= Len(img) /\ img[k + j] = p.bytes[j])

\* an occurrence of p in img: p lies inside img at k and its tokens are equal
OccursAt(img, p, k) ==
    /\ k >= 0
    /\ k + Len(p.bytes) <= Len(img)
    /\ TokensEqualAt(img, p, k)

Occurrences(img, p) == {k \in 0..Len(img) : OccursAt(img, p, k)}

HasExact(p) == \E j \in 1..Len(p.check) : p.check[j] = 1

OnlyWildcards(p) == Len(p.check) > 0 /\ \A j \in 1..Len(p.check) : p.check[j] = 0

\* C1: patternScan returns a match address only if every non-wildcard token
\* equals the image byte at the corresponding offset from it and no lower
\* start offset matches; when no start offset matches it returns 0.
C1_FirstMatchOrZero ==
    Scanned =>
       /\ (scan.kind = "ret" /\ scan.value # 0) =>
             \E k \in 0..Len(mem) :
                /\ scan.value = base + k
                /\ TokensEqualAt(mem, Pat, k)
                /\ \A l \in 0..(k - 1) : ~TokensEqualAt(mem, Pat, l)
       /\ (\A k \in 0..Len(mem) : ~TokensEqualAt(mem, Pat, k)) =>
             (scan.kind = "ret" /\ scan.value = 0)

\* C2: for a signature with at least one exact byte and a region holding
\* exactly one occurrence of it, patternScan returns that occurrence's start
\* offset, also when the occurrence ends at the last byte of the region.
C2_SingleOccurrenceFound ==
    (Scanned /\ HasExact(Pat) /\ Cardinality(Occurrences(mem, Pat)) = 1) =>
        \A k \in Occurrences(mem, Pat) :
            scan.kind = "ret" /\ scan.value = base + k

\* C3: for a signature of wildcard tokens only, patternScan over a non-empty
\* region returns offset 0, whatever the signature's length.
C3_WildcardsMatchAtZero ==
    (Scanned /\ OnlyWildcards(Pat) /\ Len(mem) > 0) =>
        (scan.kind = "ret" /\ scan.value = base + 0)

(***************************************************************************)
(* Properties of patch (PatchSpec).                                        *)
(***************************************************************************)
Steps == hist.steps

\* C4: patch performs its three steps in strict order: the protection change
\* to PAGE_EXECUTE_READWRITE that captures the previous value, then the copy,
\* then the restore, which sets exactly the captured value.
C4_ProtectCopyRestore ==
    \A n \in 1..Len(Steps) :
       /\ Steps[n].op = "protect" =>
             /\ n = 1 \/ Steps[n - 1].op = "restore"
             /\ Steps[n].arg = PAGE_EXECUTE_READWRITE
       /\ Steps[n].op = "copy" => (n > 1 /\ Steps[n - 1].op = "protect")
       /\ Steps[n].op = "restore" =>
             /\ n > 2 /\ Steps[n - 1].op = "copy" /\ Steps[n - 2].op = "protect"
             /\ Steps[n - 2].ok =>
                   /\ Steps[n].arg = Steps[n - 2].was
                   /\ Steps[n].now = Steps[n - 2].was

C4_Witness ==
    /\ pc = "returned"
    /\ Len(Steps) = 3
    /\ Steps[1].ok /\ Steps[1].was = "PAGE_EXECUTE"
    /\ Steps[2].op = "copy" /\ Steps[3].op = "restore"
    /\ prot = "PAGE_EXECUTE"

\* C5: when the protection change of step 1 fails the copy is not attempted,
\* and the bytes of the range are the same after patch returns as before.
C5_FailedProtectSkipsCopy ==
    /\ \A n \in 2..Len(Steps) :
          (Steps[n].op = "copy" /\ patternBytes # <<>>) => Steps[n - 1].ok
    /\ (pc = "returned" /\ hist.calls = 1 /\ ~Steps[1].ok) => mem = hist.mem0

\* C6: the protection of the range after patch returns equals its protection
\* before the call, whether the protection change of step 1 succeeded or not.
C6_ProtectionRoundTrip ==
    \A n \in 1..Len(Steps) :
        Steps[n].op = "restore" => Steps[n].now = Steps[n - 2].was

\* the bytes a string of space-separated hex pairs stands for: its digits,
\* spaces dropped, taken two at a time
PairDigits(s) == SelectSeq(s, LAMBDA c : c # " ")

HexPairs(s) ==
    [k \in 1..(Len(PairDigits(s)) \div 2) |->
        16 * HexVal(PairDigits(s)[2 * k - 1]) + HexVal(PairDigits(s)[2 * k])]

\* C7: after patch(address, byteString) the bytes at [address, address+len)
\* are the patch bytes in order, and a second application of the same patch
\* leaves the region as the first left it.
C7_ReadBackAndIdempotent ==
    /\ pc = "returned" =>
          Load(base, mem, address, Len(HexPairs(patchStr))) = HexPairs(patchStr)
    /\ \A c \in 1..Len(hist.after) :
          Load(base, hist.after[c], address, Len(HexPairs(patchStr)))
             = HexPairs(patchStr)
    /\ Len(hist.after) >= 2 => hist.after[2] = hist.after[1]

C7_Witness ==
    /\ pc = "returned"
    /\ Len(hist.after) = 2
    /\ patchStr = <<"1", "A", " ", " ", " ", " ", "0", "1">>
    /\ Load(base, hist.mem0, address, 2) = <<170, 17>>
    /\ Load(base, mem, address, 2) = <<26, 1>>

(***************************************************************************)
(* Properties of injectPatch (Spec).                                       *)
(***************************************************************************)
\* C8: with enable = false injectPatch scans nothing, changes no protection,
\* writes nothing and logs exactly one line, "Fix Disabled".
C8_DisabledDoesNothing ==
    ~enable =>
       /\ hist.scans = 0 /\ scan = NoScan
       /\ Steps = <<>> /\ hist.calls = 0
       /\ hist.written = {} /\ mem = hist.mem0 /\ prot = hist.prot0
       /\ pc \in {"injectPatch", "done"}
       /\ pc = "injectPatch" => log = <<>>
       /\ pc = "done" => log = <<<<"Fix", "Disabled">>>>

C8_Witness == ~enable /\ pc = "done" /\ Len(log) = 1

Target == scan.value + patchOffset

\* C9: enabled and the signature found, the patch bytes are written at
\* match + patchOffset and nowhere else, and the offset reported is
\* (match - module base) + patchOffset.
C9_PatchAtMatchPlusOffset ==
    (enable /\ scan.kind = "ret" /\ scan.value # 0) =>
       /\ address = Target
       /\ hist.written \subseteq Range(Target, Len(HexPairs(patchStr)))
       /\ \A k \in 1..Len(mem) :
             (base + k - 1) \notin Range(Target, Len(HexPairs(patchStr)))
                => mem[k] = hist.mem0[k]
       /\ pc \in {"restore", "logPatched", "done"} =>
             /\ hist.written = Range(Target, Len(HexPairs(patchStr)))
             /\ \A k \in 1..Len(mem) :
                   (base + k - 1) \in Range(Target, Len(HexPairs(patchStr)))
                      => mem[k] = HexPairs(patchStr)[(base + k - 1) - Target + 1]
       /\ pc = "done" =>
             /\ Len(log) = 3
             /\ log[2] = <<"Found", signature, scan.value - base>>
             /\ log[3] = <<"Patched", patchStr, (scan.value - base) + patchOffset>>

C9_Witness ==
    /\ pc = "done" /\ enable
    /\ signature = PillarBoxSignature /\ patchStr = <<"0", "1">>
    /\ patchOffset = 6
    /\ scan.value = base + 1
    /\ hist.written = {base + 7}
    /\ hist.mem0[8] = 0 /\ mem[8] = 1
    /\ log[3] = <<"Patched", <<"0", "1">>, 7>>

\* C10: enabled and the signature not found, injectPatch logs the failure and
\* returns: patch is not called, no protection is changed, no byte of the
\* image is changed and the scan is not repeated.
C10_NotFoundLeavesImage ==
    (enable /\ scan.kind = "ret" /\ scan.value = 0) =>
       /\ pc = "done"
       /\ log = <<<<"Fix", "Enabled">>, <<"Did not find", signature>>>>
       /\ hist.calls = 0 /\ Steps = <<>> /\ hist.written = {}
       /\ mem = hist.mem0 /\ prot = hist.prot0
       /\ hist.scans = 1

C10_Witness ==
    /\ enable /\ pc = "done"
    /\ scan.kind = "ret" /\ scan.value = 0
    /\ HasExact(Pat) /\ Occurrences(mem, Pat) = {}
    /\ Len(log) = 2

(***************************************************************************)
(* Utils::patternScan called with a signature string that is not made of   *)
(* hex pairs and "??" (SigSpec).                                           *)
(***************************************************************************)
MaxBadSig == 2

\* a character that is no hex digit, a single digit, three digits
BadTokens == {<<"G", "1">>, <<"A">>, <<"1", "A", "B">>}

WellFormedField(f) ==
    \/ f = <<"?", "?">>
    \/ Len(f) = 2 /\ IsHex(f[1]) /\ IsHex(f[2])

\* the string has a space-separated token that is neither two hex digits
\* nor "??"
Malformed(s) ==
    LET f == Fields(s, 0, <<>>)
    IN  \E k \in 1..Len(f) : ~WellFormedField(f[k])

MalformedSignatures ==
    {s \in {Join(t, <<" ">>) : t \in SeqsUpTo(SigTokens \cup BadTokens, MaxBadSig)} :
        Malformed(s)}

SigInit ==
    /\ base \in Bases
    /\ mem \in Images
    /\ signature \in MalformedSignatures
    /\ prot = "PAGE_EXECUTE_READ"
    /\ patchStr = <<>> /\ patchOffset = 0 /\ enable = TRUE
    /\ pc = "patternScan" /\ caller = "direct"
    /\ scan = NoScan /\ address = 0 /\ patternBytes = <<>>
    /\ oldProtect = Uninit /\ log = <<>>
    /\ hist = NoHist(mem, prot)
    /\ pattern = NoPattern
    /\ Unused

SigNext == ScanCall

SigSpec == SigInit /\ [][SigNext]_vars

\* C11: a signature string with a token that is not exactly two hex digits
\* or "??" is rejected when it is parsed, with a diagnostic: no byte/mask
\* pattern is made of it and nothing is scanned for.
C11_MalformedRejected ==
    (Scanned /\ Malformed(signature)) =>
       /\ pattern = NoPattern
       /\ scan.iters = 0
       /\ log # <<>>

(***************************************************************************)
(* Properties of the signature parser (Spec) and of the scan's bounds      *)
(* (ScanSpec).                                                             *)
(***************************************************************************)
\* the value of a field of two hex digits
PairValue(f) == 16 * HexVal(f[1]) + HexVal(f[2])

\* pattern p has one token per field of f, in order: a wildcard for "??",
\* the exact byte for a hex pair
OneTokenPerField(p, f) ==
    /\ Len(p.bytes) = Len(f)
    /\ Len(p.check) = Len(f)
    /\ \A k \in 1..Len(f) :
          IF f[k] = <<"?", "?">> THEN p.check[k] = 0
          ELSE p.check[k] = 1 /\ p.bytes[k] = PairValue(f[k])

\* C15: of a signature made of two-hex-digit tokens and "??" tokens with one
\* or more spaces between them the parser makes exactly one matcher token
\* per field, in order: an exact token with the byte's value for a hex pair,
\* a wildcard for "??"; no field is skipped, merged or split.
C15_OneTokenPerField ==
    (scan.kind # "none" /\ ~Malformed(signature)) =>
       OneTokenPerField(pattern, Fields(signature, 0, <<>>))

C15_Witness ==
    /\ scan.kind # "none"
    /\ signature = PillarBoxSignature
    /\ pattern.check = <<1, 1, 0, 0, 0, 0, 1, 1, 1, 1, 1, 1, 1, 1, 1>>
    /\ pattern.bytes[2] = 61 /\ pattern.bytes[15] = 96

\* C17: the scan stays inside the image for every image and signature, a
\* signature of at least as many tokens as the image has bytes included: at
\* most SizeOfImage start offsets are tried, every byte compared lies in
\* the image, and the loop's bound does not wrap around.
C17_ScanWithinImage ==
    Scanned =>
       /\ ~scan.oob
       /\ scan.iters <= SizeOfImage(mem)
       /\ ScanLimit(mem, Pat) <= SizeOfImage(mem)

(***************************************************************************)
(* Utils::injectPatch on the inputs that make it fail (RobustSpec): a      *)
(* signature that is not found, a page whose protection cannot be changed, *)
(* a malformed signature, a malformed byte-string, a null module.          *)
(***************************************************************************)
RobustImages == {<<17>>, <<170, 17>>}

RobustSignatures ==
    {<<"A", "A">>, <<"1", "1">>, Join(<<<<"A", "A">>, <<"1", "1">>>>, <<" ">>)}
       \cup MalformedSignatures

\* "G1" makes std::stoul throw, alone or behind a pair that converts
RobustPatchStrings ==
    {<<"0", "1">>, Join(<<<<"0", "1">>, <<"1", "A">>>>, <<" ">>),
     <<"G", "1">>, Join(<<<<"0", "1">>, <<"G", "1">>>>, <<" ">>)}

RobustInit ==
    /\ base \in Bases \cup {NullModule}
    /\ mem \in RobustImages
    /\ signature \in RobustSignatures
    /\ patchStr \in RobustPatchStrings
    /\ patchOffset = 0
    /\ enable \in BOOLEAN
    /\ prot \in Protections
    /\ pc = "injectPatch" /\ caller = "injectPatch"
    /\ scan = NoScan /\ address = 0 /\ patternBytes = <<>>
    /\ oldProtect = Uninit /\ log = <<>>
    /\ hist = NoHist(mem, prot)
    /\ pattern = NoPattern
    /\ Unused

RobustSpec == RobustInit /\ [][Next]_vars

\* C12: no failure is fatal to the host process: whether the signature is
\* not found, the protection change fails, the signature or the patch
\* byte-string is malformed or the image base is null, patternScan, patch
\* and injectPatch return normally, with no uncaught exception and no
\* invalid memory access.
C12_NoFailureFatal == pc # "crashed"

(***************************************************************************)
(* Utils::patch while a thread of the host reads or executes the bytes it  *)
(* writes (RaceSpec). patch takes no lock and suspends no thread; memcpy   *)
(* is not atomic: it stores the bytes in pieces of a width it chooses.     *)
(***************************************************************************)
RaceInit ==
    /\ base \in Bases
    /\ mem \in Images
    /\ patchStr \in PatchStrings \ {<<>>}
    /\ address \in {a \in Range(base, Len(mem)) :
                       InImage(base, mem, a, Len(patternToByte(patchStr).bytes))}
    /\ prot \in Protections
    /\ signature = <<>> /\ patchOffset = 0 /\ enable = TRUE
    /\ pc = "parse" /\ caller = "direct"
    /\ scan = NoScan /\ patternBytes = <<>>
    /\ oldProtect = Uninit /\ log = <<>>
    /\ hist = [NoHist(mem, prot) EXCEPT !.calls = 1]
    /\ pattern = NoPattern
    /\ Unused

\* line 97, memcpy in progress: the next n bytes are stored, n being all
\* that is left or less; a store to a page that is not writable faults
CopyChunk ==
    /\ pc = "copy"
    /\ copied < Len(patternBytes)
    /\ IF Writable(prot)
       THEN \E n \in 1..(Len(patternBytes) - copied) :
               /\ mem' = Store(base, mem, address + copied,
                               SubSeq(patternBytes, copied + 1, copied + n))
               /\ copied' = copied + n
               /\ pc' = IF copied' = Len(patternBytes) THEN "restore" ELSE "copy"
               /\ hist' = [hist EXCEPT
                      !.steps = IF copied' = Len(patternBytes)
                                THEN Append(@, Step("copy", TRUE, address, prot, prot))
                                ELSE @,
                      !.written = @ \cup Range(address + copied, n)]
       ELSE /\ pc' = "crashed"
            /\ hist' = [hist EXCEPT
                   !.steps = Append(@, Step("copy", FALSE, address, prot, prot))]
            /\ UNCHANGED <<mem, copied>>
    /\ UNCHANGED <<pattern, seen, ctx, yml, dll, base, prot, signature, patchStr,
                   patchOffset, enable, caller, scan, address, patternBytes,
                   oldProtect, log>>

\* a thread of the host reads the bytes at [address, address + size), all
\* of them at once, at any moment from the call of patch on
HostRead ==
    /\ pc \in {"protect", "copy", "restore", "returned"}
    /\ seen' = Load(base, mem, address, Len(patternBytes))
    /\ UNCHANGED <<coreVars, copied, ctx, yml, dll>>

RaceNext ==
    \/ PatchParse
    \/ PatchProtect
    \/ CopyChunk
    \/ PatchRestore
    \/ HostRead

RaceSpec == RaceInit /\ [][RaceNext]_vars

\* C13: while patch protects, writes and restores, the patching thread has
\* the range to itself without a lock: whenever a thread of the host reads
\* the bytes of [address, address + len), it finds them all as they were
\* before the patch or all as the patch sets them, never partly written.
C13_NoPartialWrite ==
    seen # <<>> =>
       \/ seen = Load(base, hist.mem0, address, Len(patternBytes))
       \/ seen = patternBytes

(***************************************************************************)
(* The callbacks fovFeature and hudFeature hand to Utils::injectHook       *)
(* (dllmain.cpp 347-349 and 436-438), each called with a register context  *)
(* as the hooked code reaches its hook point (HookSpec).                   *)
(***************************************************************************)
MaxHits == 2

\* an f32 is modelled by an integer count of the unit 1 / LaneUnit: every
\* product with 0.125f the model computes is then exact, as it is in f32
\* for values of few significant bits
LaneUnit == 8 ^ (MaxHits + 1)

\* yml.features.fov.value: the game's own 75 degrees, or 90
FovValues == {75 * LaneUnit, 90 * LaneUnit}

LaneValues == {LaneUnit, 16 * LaneUnit}

\* SafetyHookContext: of its fields two general-purpose registers, the
\* instruction pointer, xmm0 with its four f32 lanes and one more vector
\* register
Contexts ==
    [rax : {1, 2}, rsp : {4096}, rip : {8192},
     xmm0 : [1..4 -> LaneValues],
     xmm1 : {[k \in 1..4 |-> v] : v \in LaneValues}]

\* a callback that sets the whole register
fovCallbackAllLanes(c, y) == [c EXCEPT !.xmm0 = [k \in 1..4 |-> y.fov]]

\* ctx.xmm0.f32[0] = yml.features.fov.value;
fovCallback(c, y) == [c EXCEPT !.xmm0[1] = y.fov]

\* ctx.xmm0.f32[0] += (ctx.xmm0.f32[0] * 0.125f);
hudCallback(c) == [c EXCEPT !.xmm0[1] = @ + (@ \div 8)]

NoHits == [entry |-> NoCtx, ran |-> <<>>]

HookInit ==
    /\ ctx \in Contexts
    /\ yml \in [fov : FovValues]
    /\ hist = NoHits
    /\ base \in Bases /\ mem = <<>> /\ prot = "PAGE_EXECUTE_READ"
    /\ signature = <<>> /\ patchStr = <<>> /\ patchOffset = 0
    /\ enable = TRUE /\ pc = "hooked" /\ caller = "host"
    /\ scan = NoScan /\ address = 0 /\ patternBytes = <<>>
    /\ oldProtect = Uninit /\ log = <<>>
    /\ pattern = NoPattern
    /\ copied = 0 /\ seen = <<>> /\ dll = NoDll

\* the hooked movss of dllmain.cpp 326 is reached: the callback runs on the
\* context and returns
FovCallback ==
    /\ pc = "hooked"
    /\ Len(hist.ran) < MaxHits
    /\ ctx' = fovCallback(ctx, yml)
    /\ hist' = [entry |-> ctx, ran |-> Append(hist.ran, "fov")]
    /\ UNCHANGED <<base, mem, prot, signature, patchStr, patchOffset, enable,
                   pc, caller, scan, address, patternBytes, oldProtect, log,
                   pattern, copied, seen, yml, dll>>

\* the hook point of hudFeature is reached
HudCallback ==
    /\ pc = "hooked"
    /\ Len(hist.ran) < MaxHits
    /\ ctx' = hudCallback(ctx)
    /\ hist' = [entry |-> ctx, ran |-> Append(hist.ran, "hud")]
    /\ UNCHANGED <<base, mem, prot, signature, patchStr, patchOffset, enable,
                   pc, caller, scan, address, patternBytes, oldProtect, log,
                   pattern, copied, seen, yml, dll>>

HookNext ==
    \/ FovCallback
    \/ HudCallback

HookSpec == HookInit /\ [][HookNext]_vars

\* the callback that returned last
LastRan == hist.ran[Len(hist.ran)]

\* C14: a hook callback changes only the register field it overwrites: when
\* the FOV callback has returned, lane 0 of xmm0 is the configured FOV
\* value; when the FOV or the HUD callback has returned, every other field
\* of the context (the general-purpose registers, the instruction pointer,
\* lanes 1 to 3 of xmm0, the other vector register) has the value it had
\* when the callback was entered, and control is back at the hooked code.
C14_OnlyLaneZeroChanges ==
    hist.ran # <<>> =>
       /\ LastRan = "fov" => ctx.xmm0[1] = yml.fov
       /\ DOMAIN ctx = DOMAIN hist.entry
       /\ \A f \in DOMAIN ctx \ {"xmm0"} : ctx[f] = hist.entry[f]
       /\ \A k \in 2..4 : ctx.xmm0[k] = hist.entry.xmm0[k]
       /\ pc = "hooked"

C14_Witness ==
    /\ hist.ran = <<"fov", "hud">>
    /\ hist.entry.xmm0[1] = yml.fov
    /\ ctx.xmm0[1] = yml.fov + yml.fov \div 8
    /\ ctx.xmm0[2] # ctx.xmm0[1] /\ ctx.xmm0[2] # ctx.xmm0[3]

(***************************************************************************)
(* DllMain and the worker thread Main (dllmain.cpp 451-458 and 488-509)    *)
(* (DllSpec). Time is counted in milliseconds.                             *)
(***************************************************************************)
MaxNotes == 3

MaxTicks == 2

\* Sleep(5000)
StartupDelay == 5000

Reasons == {"DLL_PROCESS_ATTACH", "DLL_THREAD_ATTACH", "DLL_THREAD_DETACH",
            "DLL_PROCESS_DETACH"}

\* the statements of Main, in the order of its body
MainOrder == <<"logInit", "readYml", "pillarBoxFix", "fovFeature", "hudFeature">>

\* a start of the thread without the wait
SleepNone(t, ms) == t

\* Sleep(ms) called at time t returns at t + ms
Sleep(t, ms) == t + ms

DllInit ==
    /\ dll = [notes |-> <<>>, now |-> 0, ticks |-> 0, attachedAt |-> 0,
              starters |-> <<>>, startedAt |-> 0, thread |-> "none",
              acts |-> <<>>]
    /\ yml = NoYml /\ ctx = NoCtx
    /\ base \in Bases /\ mem = <<>> /\ prot = "PAGE_EXECUTE_READ"
    /\ signature = <<>> /\ patchStr = <<>> /\ patchOffset = 0
    /\ enable = TRUE /\ pc = "loaded" /\ caller = "host"
    /\ scan = NoScan /\ address = 0 /\ patternBytes = <<>>
    /\ oldProtect = Uninit /\ log = <<>>
    /\ hist = NoHist(mem, prot)
    /\ pattern = NoPattern
    /\ copied = 0 /\ seen = <<>>

\* a millisecond passes
Tick ==
    /\ dll.ticks < MaxTicks
    /\ dll' = [dll EXCEPT !.now = @ + 1, !.ticks = @ + 1]
    /\ UNCHANGED <<coreVars, copied, seen, ctx, yml>>

\* DllMain(hModule, ul_reason_for_call, lpReserved): on process-attach, which
\* the loader sends once, it sleeps, then creates the thread, which the
\* system may refuse; on the other three reasons it does nothing
DllMain ==
    /\ Len(dll.notes) < MaxNotes
    /\ \E reason \in Reasons :
          /\ reason = "DLL_PROCESS_ATTACH" =>
                \A k \in 1..Len(dll.notes) : dll.notes[k] # "DLL_PROCESS_ATTACH"
          /\ IF reason = "DLL_PROCESS_ATTACH"
             THEN \E mainHandle \in BOOLEAN :
                     dll' = [dll EXCEPT
                        !.notes = Append(@, reason),
                        !.attachedAt = dll.now,
                        !.now = Sleep(dll.now, StartupDelay),
                        !.starters = IF mainHandle THEN Append(@, reason) ELSE @,
                        !.startedAt = IF mainHandle
                                      THEN Sleep(dll.now, StartupDelay) ELSE @,
                        !.thread = IF mainHandle THEN MainOrder[1] ELSE @]
             ELSE dll' = [dll EXCEPT !.notes = Append(@, reason)]
    /\ UNCHANGED <<coreVars, copied, seen, ctx, yml>>

\* the worker thread is at statement k of Main: the call is made and
\* returns, or it ends the process (an exception nothing catches, a fault)
MainCall(k) ==
    /\ dll.thread = MainOrder[k]
    /\ \E ok \in BOOLEAN :
          dll' = [dll EXCEPT
             !.acts = Append(@, MainOrder[k]),
             !.thread = IF ~ok THEN "crashed"
                        ELSE IF k < Len(MainOrder) THEN MainOrder[k + 1]
                        ELSE "returned"]

logInit ==
    /\ MainCall(1)
    /\ UNCHANGED <<coreVars, copied, seen, ctx, yml>>

\* readYml fills yml from the configuration file
readYml ==
    /\ MainCall(2)
    /\ yml' \in [fov : FovValues]
    /\ UNCHANGED <<coreVars, copied, seen, ctx>>

pillarBoxFix ==
    /\ MainCall(3)
    /\ UNCHANGED <<coreVars, copied, seen, ctx, yml>>

fovFeature ==
    /\ MainCall(4)
    /\ UNCHANGED <<coreVars, copied, seen, ctx, yml>>

hudFeature ==
    /\ MainCall(5)
    /\ UNCHANGED <<coreVars, copied, seen, ctx, yml>>

DllNext ==
    \/ Tick
    \/ DllMain
    \/ logInit
    \/ readYml
    \/ pillarBoxFix
    \/ fovFeature
    \/ hudFeature

DllSpec == DllInit /\ [][DllNext]_vars

IsPrefix(a, b) == Len(a) <= Len(b) /\ a = SubSeq(b, 1, Len(a))

====
